---- MODULE Spec2Model ----
(***************************************************************************)
(* DotField (src/dot_field.py): a field of randomly placed 2-D dots that   *)
(* update() translates or rotates frame by frame.                          *)
(*                                                                         *)
(* Numbers.  The program computes in IEEE-754 binary floating point        *)
(* (numpy float64): every +, - and * is rounded to the nearest             *)
(* representable value, ties to even.  The model keeps that arithmetic and *)
(* scales the format down: a number is an integer count of grid units of   *)
(* 1/Scale (the smallest positive value of the format; below               *)
(* 2^Precision grid units every integer is representable, as with gradual  *)
(* underflow), and it is representable when its magnitude is m * 2^e with  *)
(* m < 2^Precision.  float64 has Precision = 53.  Overflow to infinity is  *)
(* out of reach of the bounded runs and is not modelled.                   *)
(***************************************************************************)
EXTENDS Integers, Naturals, Sequences, FiniteSets, TLC

\* ------------------------------------------------------------------ bounds
\* Bits of the significand of the scaled-down float format.
Precision == 8
\* The grid unit is 2^-FracBits.
FracBits == 10
\* Operations in one run: calls of update() and writes of the caller into a
\* snapshot it was handed.
MaxSteps == 2
\* Draws of the seeded generator are multiples of 2^-RngBits in [0,1).
RngBits == 5

\* ------------------------------------------------------- float arithmetic
Pow2(n) == 2 ^ n

Scale == Pow2(FracBits)

Abs(n) == IF n < 0 THEN -n ELSE n

Sgn(n) == IF n < 0 THEN -1 ELSE 1

\* The least e >= 0 with a < 2^(Precision+e) * den: the exponent of the binade
\* of the rational a/den (a >= 0, den > 0).
RECURSIVE ExpOf(_, _, _)
ExpOf(a, den, e) == IF a < Pow2(Precision + e) * den THEN e ELSE ExpOf(a, den, e + 1)

\* Round the rational num/den (den > 0, in grid units) to the nearest
\* representable value, ties to the even significand.
RoundQ(num, den) ==
    LET a == Abs(num)
        e == ExpOf(a, den, 0)
        q == Pow2(e) * den
        m == a \div q
        r == a - m * q
        up == (2 * r > q) \/ (2 * r = q /\ m % 2 = 1)
    IN  Sgn(num) * (IF up THEN m + 1 ELSE m) * Pow2(e)

Representable(n) == RoundQ(n, 1) = n

FAdd(x, y) == RoundQ(x + y, 1)

FSub(x, y) == RoundQ(x - y, 1)

FMul(x, y) == RoundQ(x * y, Scale)

FDiv(x, y) == RoundQ(Sgn(y) * x * Scale, Abs(y))

\* The float nearest to the rational p/q.
Lit(p, q) == RoundQ(p * Scale, q)

\* int(): truncation toward zero of a float, as a plain integer.
Trunc(v) == Sgn(v) * (Abs(v) \div Scale)

\* np.cos and np.sin: the correctly rounded value for an angle that is a
\* multiple of a quarter radian up to 6 (the angles the runs use), from a table of
\* cos(k/4) and sin(k/4) to 16 fractional bits; cos is even and sin is odd.
TrigScale == Pow2(16)

CosTab == <<65536, 63499, 57513, 47952, 35409, 20665, 4636,
            -11682, -27273, -41168, -52504, -60575, -64880, -65151,
            -61372, -53776, -42837, -29235, -13815, 2464, 18590,
            33560, 46443, 56439, 62926>>

SinTab == <<0, 16214, 31420, 44672, 55147, 62193, 65372,
            64487, 59592, 50992, 39221, 25013, 9248, -7091,
            -22989, -37458, -49598, -58654, -64063, -65490, -62844,
            -56291, -46238, -33311, -18312>>

Quarter(angle) == (Abs(angle) * 4) \div Scale

Cos(angle) == RoundQ(CosTab[Quarter(angle) + 1] * Scale, TrigScale)

Sin(angle) == Sgn(angle) * RoundQ(SinTab[Quarter(angle) + 1] * Scale, TrigScale)

\* ------------------------------------------------------- the random source
\* numpy.random.Generator: a deterministic function of its seed.  The model's
\* generator is a full-period congruential one over 0 .. RngMod-1; a draw of
\* random() is state/RngMod in [0,1).
RngMod == Pow2(RngBits)

RngNext(s) == (5 * s + 3) % RngMod

\* rng.uniform(low, high, count): low + (high - low) * random(), count times.
\* The value is the record of the drawn values and the generator's new state.
RECURSIVE Uniform(_, _, _, _)
Uniform(s, low, high, count) ==
    IF count <= 0 THEN [vals |-> << >>, rng |-> s]
    ELSE LET s1 == RngNext(s)
             v == FAdd(low, FMul(FSub(high, low), Lit(s1, RngMod)))
             rest == Uniform(s1, low, high, count - 1)
         IN  [vals |-> <<v>> \o rest.vals, rng |-> rest.rng]

\* "rng or np.random.default_rng()": the generator the caller passed, or a
\* fresh one seeded from the operating system's entropy.
None == -1

\* Mutant: the rng argument is ignored and a default generator always made.
SelectRngIgnored(rng, entropy) == entropy

SelectRng(rng, entropy) == IF rng # None THEN rng ELSE entropy

\* ----------------------------------------------------------- construction
\* Mutant: the count is rounded to the nearest integer, not truncated.
DotCountRounded(width, height, dot_density) ==
    Trunc(FMul(FMul(width, height), dot_density) + Scale \div 2)

DotCount(width, height, dot_density) ==
    Trunc(FMul(FMul(width, height), dot_density))

\* _initialize_positions: count x-draws, then count y-draws, paired index for
\* index (vstack, transposed).
InitializePositions(width, height, dot_density, rng) ==
    LET count == DotCount(width, height, dot_density)
        x == Uniform(rng, 0, width, count)
        y == Uniform(x.rng, 0, height, count)
    IN  [positions |-> [i \in 1..count |-> <<x.vals[i], y.vals[i]>>],
         rng |-> y.rng]

\* ------------------------------------------------------------ update, pure
\* Mutant: dots are kept from leaving the field through its lower bounds.
TranslateClamped(pos, direction, speed) ==
    LET dx == FMul(direction[1], speed)
        dy == FMul(direction[2], speed)
        Clamp(v) == IF v < 0 THEN 0 ELSE v
    IN  [i \in 1..Len(pos) |->
            <<Clamp(FAdd(pos[i][1], dx)), Clamp(FAdd(pos[i][2], dy))>>]

\* Mutant: the y-offset is taken from the x-component of the direction.
TranslateSameOffset(pos, direction, speed) ==
    LET dx == FMul(direction[1], speed)
    IN  [i \in 1..Len(pos) |-> <<FAdd(pos[i][1], dx), FAdd(pos[i][2], dx)>>]

\* mode == "translation": positions[:, 0] += dx; positions[:, 1] += dy.
Translate(pos, direction, speed) ==
    LET d == [k \in 1..2 |-> FMul(direction[k], speed)]
        dx == d[1]
        dy == d[2]
    IN  [i \in 1..Len(pos) |-> <<FAdd(pos[i][1], dx), FAdd(pos[i][2], dy)>>]

\* a @ b for an N x 2 and a 2 x 2 matrix.
MatMul(a, b) ==
    [i \in 1..Len(a) |->
        LET row == a[i]
        IN  [j \in 1..2 |-> FAdd(FMul(row[1], b[1][j]), FMul(row[2], b[2][j]))]]

\* Mutant: the rotation matrix is applied without the transposition.
TransposeForgotten(m) == m

Transpose(m) == [i \in 1..2 |-> [j \in 1..2 |-> m[j][i]]]

\* Mutant: "cw" turns the way "ccw" does.
RotationAngleUnsigned(mode, speed) == speed

\* angle = speed if mode == "ccw" else -speed
RotationAngle(mode, speed) == IF mode = "ccw" THEN speed ELSE -speed

\* Mutant: a sign slip in the matrix, which then is no rotation.
RotationMatrixSignSlip(angle) ==
    LET cos_a == Cos(angle)
        sin_a == Sin(angle)
    IN  << <<cos_a, sin_a>>, <<sin_a, cos_a>> >>

\* np.array([[cos_a, -sin_a], [sin_a, cos_a]])
RotationMatrix(angle) ==
    LET cos_a == Cos(angle)
        sin_a == Sin(angle)
    IN  << <<cos_a, -sin_a>>, <<sin_a, cos_a>> >>

\* Mutant: the final else is the translation branch, so nothing is rejected.
DispatchElseTranslation(mode) ==
    IF mode \in {"cw", "ccw"} THEN "rotation" ELSE "translation"

\* Mutant: "cw" is not recognized.
DispatchCwUnknown(mode) ==
    IF mode = "translation" THEN "translation"
    ELSE IF mode \in {"ccw"} THEN "rotation"
    ELSE "unsupported"

\* The branch of update() a mode takes: if / elif / else.
Dispatch(mode) ==
    IF mode = "translation" THEN "translation"
    ELSE IF mode \in {"cw", "ccw"} THEN "rotation"
    ELSE "unsupported"

\* mode in {"cw", "ccw"}.
Rotate(pos, width, height, mode, speed) ==
    LET angle == RotationAngle(mode, speed)
        cx == FDiv(width, Lit(2, 1))
        cy == FDiv(height, Lit(2, 1))
        shifted == [i \in 1..Len(pos) |->
                       <<FSub(pos[i][1], cx), FSub(pos[i][2], cy)>>]
        rot_matrix == RotationMatrix(angle)
        rotated == MatMul(shifted, Transpose(rot_matrix))
    IN  [i \in 1..Len(pos) |->
            LET row == rotated[i]
            IN  <<FAdd(row[1], cx), FAdd(row[2], cy)>>]

\* ------------------------------------------------------------------ inputs
\* (width, height, dot_density) of the constructor, each a float.
Configs ==
    { <<Lit(2, 1), Lit(2, 1), Lit(1, 2)>>,
      <<Lit(3, 1), Lit(2, 1), Lit(1, 4)>>,
      <<Lit(1, 1), Lit(5, 2), Lit(1, 1)>>,
      <<Lit(3, 1), Lit(2, 1), 0>> }

\* The rng argument of the constructor: a generator seeded with 1, or
\* None; and what the operating system's entropy seeds a default one with.
RngArgs == {1, None}

Entropy == {5, 6}

Modes == {"translation", "cw", "ccw", "diagonal"}

Directions == { <<Lit(1, 1), 0>>, <<Lit(-1, 1), Lit(7, 10)>> }

Speeds == {Lit(1, 2), Lit(5, 1)}

\* ------------------------------------------------------------------- state
VARIABLES
    width, height, dot_density,  \* the DotField's fields, as constructed
    rng,           \* the state of the DotField's random generator
    positions,     \* self.positions: a reference to an array on the heap
    heap,          \* the live arrays: buffer id -> sequence of <<x, y>>
    calls,         \* the update() calls made so far, in order
    results,       \* what each call gave: a returned array or an error
    trace,         \* the value of self.positions at construction and after each call
    edits,         \* how many writes the caller has made into snapshots it was handed
    gens,          \* two DotFields side by side: the generator objects, id -> state
    fields         \* two DotFields side by side: each one's fields and call log

oneVars == <<width, height, dot_density, rng, positions, heap, calls, results,
             trace, edits>>

twoVars == <<gens, fields>>

vars == <<oneVars, twoVars>>

BufIds == 0 .. (MaxSteps + 1)

\* The value self.positions refers to.
Positions == heap[positions]

\* The arrays the caller holds: the ones update() returned.
Snapshots == {results[k].ret : k \in {j \in DOMAIN results : results[j].kind = "ok"}}

\* A new array gets the least id not in use.
NewBuf(h) ==
    CHOOSE b \in BufIds \ DOMAIN h : \A c \in BufIds \ DOMAIN h : b <= c

\* Arrays nothing refers to any more are reclaimed.
Collect(h, live) == [b \in live |-> h[b]]

\* Mutant: update returns self.positions itself.
CopyAliased(h, ref) == [heap |-> h, ret |-> ref]

\* self.positions.copy(): a new array with the same values.
Copy(h, ref) ==
    LET b == NewBuf(h) IN [heap |-> (b :> h[ref]) @@ h, ret |-> b]

Steps == Len(calls) + edits

Call(mode, direction, speed) ==
    [mode |-> mode, direction |-> direction, speed |-> speed]

Init ==
    \E cfg \in Configs, r \in RngArgs, e \in Entropy :
        LET g == SelectRng(r, e)
            made == InitializePositions(cfg[1], cfg[2], cfg[3], g)
        IN  /\ width = cfg[1]
            /\ height = cfg[2]
            /\ dot_density = cfg[3]
            /\ rng = made.rng
            /\ positions = 0
            /\ heap = (0 :> made.positions)
            /\ calls = << >>
            /\ results = << >>
            /\ trace = <<made.positions>>
            /\ edits = 0
            /\ gens = << >>
            /\ fields = << >>

\* update(mode="translation", ...): the array is changed in place, then copied.
UpdateTranslation(mode, direction, speed) ==
    /\ Steps < MaxSteps
    /\ LET moved == [heap EXCEPT ![positions] = Translate(heap[positions], direction, speed)]
           out == Copy(moved, positions)
       IN  /\ heap' = Collect(out.heap, {positions, out.ret} \cup Snapshots)
           /\ results' = Append(results, [kind |-> "ok", ret |-> out.ret])
           /\ trace' = Append(trace, moved[positions])
    /\ calls' = Append(calls, Call(mode, direction, speed))
    /\ UNCHANGED <<width, height, dot_density, rng, positions, edits, twoVars>>

\* update(mode="cw" or "ccw", ...): self.positions is bound to a new array.
UpdateRotation(mode, direction, speed) ==
    /\ Steps < MaxSteps
    /\ LET b == NewBuf(heap)
           turned == (b :> Rotate(heap[positions], width, height, mode, speed)) @@ heap
           kept == Collect(turned, {b} \cup Snapshots)
           out == Copy(kept, b)
       IN  /\ positions' = b
           /\ heap' = out.heap
           /\ results' = Append(results, [kind |-> "ok", ret |-> out.ret])
           /\ trace' = Append(trace, turned[b])
    /\ calls' = Append(calls, Call(mode, direction, speed))
    /\ UNCHANGED <<width, height, dot_density, rng, edits, twoVars>>

\* update(mode=anything else, ...): raise ValueError(f"Unsupported mode: {mode}").
UpdateUnsupported(mode, direction, speed) ==
    /\ Steps < MaxSteps
    /\ results' = Append(results, [kind |-> "ValueError",
                                   msg |-> <<"Unsupported mode: ", mode>>])
    /\ trace' = Append(trace, heap[positions])
    /\ calls' = Append(calls, Call(mode, direction, speed))
    /\ UNCHANGED <<width, height, dot_density, rng, positions, heap, edits, twoVars>>

\* The caller overwrites one dot of a snapshot it was handed.
ModifySnapshot(k, i) ==
    /\ Steps < MaxSteps
    /\ results[k].kind = "ok"
    /\ i \in DOMAIN heap[results[k].ret]
    /\ heap' = [heap EXCEPT ![results[k].ret][i] = <<0, 0>>]
    /\ edits' = edits + 1
    /\ UNCHANGED <<width, height, dot_density, rng, positions, calls, results, trace,
                   twoVars>>

Update(mode, direction, speed) ==
    \/ Dispatch(mode) = "translation" /\ UpdateTranslation(mode, direction, speed)
    \/ Dispatch(mode) = "rotation" /\ UpdateRotation(mode, direction, speed)
    \/ Dispatch(mode) = "unsupported" /\ UpdateUnsupported(mode, direction, speed)

Next ==
    \/ \E mode \in Modes, direction \in Directions, speed \in Speeds :
           Update(mode, direction, speed)
    \/ \E k \in DOMAIN results, i \in 1..Len(Positions) : ModifySnapshot(k, i)

Spec == Init /\ [][Next]_vars

\* ------------------------------------------------- two DotFields side by side
\* The caller holds two generator objects (ids 1 and 2), each seeded at the
\* start, and constructs two DotFields, handing each a generator or None; a
\* DotField handed None makes its own (id 2 + i) from the system's entropy.
\* A generator object handed to both is shared: the second construction
\* draws from where the first stopped.
TwoConfigs == { <<Lit(2, 1), Lit(2, 1), Lit(1, 2)>>, <<Lit(3, 1), Lit(2, 1), Lit(1, 4)>> }

TwoSeeds == {1, 2}

TwoRngArgs == {1, 2, None}

TwoModes == {"translation", "ccw"}

NotBuilt ==
    [built |-> FALSE, width |-> 0, height |-> 0, dot_density |-> 0, rngArg |-> None,
     seed |-> None, rng |-> 0, initial |-> << >>, positions |-> << >>, calls |-> << >>]

TwoInit ==
    /\ width = 0 /\ height = 0 /\ dot_density = 0 /\ rng = 0
    /\ positions = 0 /\ heap = (0 :> << >>)
    /\ calls = << >> /\ results = << >> /\ trace = << << >> >> /\ edits = 0
    /\ \E s1 \in TwoSeeds, s2 \in TwoSeeds : gens = (1 :> s1) @@ (2 :> s2)
    /\ fields = [i \in 1..2 |-> NotBuilt]

\* DotField(width, height, dot_density, rng) for the i-th of the two.
Construct(i, cfg, r, e) ==
    /\ ~fields[i].built
    /\ LET g == SelectRng(r, 2 + i)
           had == IF g \in DOMAIN gens THEN gens ELSE (g :> e) @@ gens
           made == InitializePositions(cfg[1], cfg[2], cfg[3], had[g])
       IN  /\ gens' = [had EXCEPT ![g] = made.rng]
           /\ fields' = [fields EXCEPT ![i] =
                  [built |-> TRUE, width |-> cfg[1], height |-> cfg[2],
                   dot_density |-> cfg[3], rngArg |-> r,
                   seed |-> IF r # None THEN gens[r] ELSE None, rng |-> g,
                   initial |-> made.positions, positions |-> made.positions,
                   calls |-> << >>]]
    /\ UNCHANGED oneVars

\* update(mode, direction, speed) on the i-th of the two, by value.
UpdateOf(i, mode, direction, speed) ==
    /\ fields[i].built
    /\ Len(fields[i].calls) < MaxSteps
    /\ LET f == fields[i]
           new == CASE Dispatch(mode) = "translation" ->
                           Translate(f.positions, direction, speed)
                    [] Dispatch(mode) = "rotation" ->
                           Rotate(f.positions, f.width, f.height, mode, speed)
                    [] OTHER -> f.positions
       IN  fields' = [fields EXCEPT ![i].positions = new,
                                    ![i].calls = Append(@, Call(mode, direction, speed))]
    /\ UNCHANGED <<gens, oneVars>>

TwoNext ==
    \/ \E i \in 1..2, cfg \in TwoConfigs, r \in TwoRngArgs, e \in Entropy :
           Construct(i, cfg, r, e)
    \/ \E i \in 1..2, mode \in TwoModes :
           UpdateOf(i, mode, <<Lit(1, 1), 0>>, Lit(1, 2))

TwoSpec == TwoInit /\ [][TwoNext]_vars

\* ------------------------------------------------------------------ claims
\* The k-th call, and self.positions before and after it.
Before(k) == trace[k]

After(k) == trace[k + 1]

\* The latest call.  Every call is the latest one in the state it leads to, so
\* a property of the latest call in every reachable state is a property of
\* every call.
Last == Len(calls)

IsUpdateStep == calls' # calls

IsEditStep == edits' # edits

NewCall == calls'[Len(calls')]

NewResult == results'[Len(results')]

Known == {"translation", "cw", "ccw"}

\* C1: in every reachable state, update() with a mode other than
\* "translation", "cw", "ccw" raises ValueError with a message that holds the
\* mode, and leaves positions and every other field of the DotField (and the
\* array positions refers to) exactly as they were.
C1_UnsupportedModeRaises ==
    [][ (IsUpdateStep /\ NewCall.mode \notin Known) =>
            /\ NewResult.kind = "ValueError"
            /\ NewResult.msg = <<"Unsupported mode: ", NewCall.mode>>
            /\ positions' = positions
            /\ heap' = heap
            /\ heap'[positions'] = Positions
            /\ <<width, height, dot_density, rng>>' = <<width, height, dot_density, rng>>
      ]_vars

\* C1 witness: update("diagonal") has failed after an earlier call moved the
\* dots, and the dots are where that earlier call left them.
C1_Witness ==
    /\ Len(calls) = 2
    /\ calls[2].mode = "diagonal"
    /\ results[2].kind = "ValueError"
    /\ Before(1) # After(1)
    /\ Positions = After(1)

\* C2: for width > 0, height > 0 and density in [0,1] a freshly constructed
\* DotField has exactly floor(width * height * dot_density) positions, each a
\* pair, and the number and the shape are the same after any sequence of
\* update calls, failing ones included.  (The product is the float product the
\* constructor computes.)
FloorOf(v) == v \div Scale

C2_CountIsFloorAndFixed ==
    LET count == FloorOf(FMul(FMul(width, height), dot_density))
    IN  /\ width > 0 /\ height > 0 /\ dot_density >= 0 /\ dot_density <= Scale
        /\ \A k \in DOMAIN trace :
               /\ Len(trace[k]) = count
               /\ \A i \in DOMAIN trace[k] : Len(trace[k][i]) = 2
        /\ Len(Positions) = count
        /\ \A i \in DOMAIN Positions : Len(Positions[i]) = 2

\* C2 witness: width * height * dot_density = 1.5 gave one dot, and it is
\* still one dot after a rotation and a failed call.
C2_Witness ==
    /\ width = Lit(3, 1) /\ height = Lit(2, 1) /\ dot_density = Lit(1, 4)
    /\ Len(calls) = 2
    /\ calls[1].mode = "ccw" /\ calls[2].mode = "diagonal"
    /\ Len(Positions) = 1

\* C3: every successful update returns an array equal to self.positions at
\* the moment of return and sharing no storage with it or with an array handed
\* out before; an array handed out keeps its values through every later
\* update (the in-place translation included); and a write of the caller into
\* an array it was handed leaves self.positions as it was.
C3_SnapshotIsIndependent ==
    [][ /\ (IsUpdateStep /\ NewResult.kind = "ok") =>
              /\ NewResult.ret # positions'
              /\ NewResult.ret \notin Snapshots
              /\ heap'[NewResult.ret] = heap'[positions']
        /\ IsUpdateStep => \A b \in Snapshots : heap'[b] = heap[b]
        /\ IsEditStep => (positions' = positions /\ heap'[positions'] = heap[positions])
      ]_vars

\* C3 witness: the snapshot of a first translation still holds the positions
\* of that moment after a second translation has moved the dots in place.
C3_Witness ==
    /\ Len(calls) = 2
    /\ calls[1].mode = "translation" /\ calls[2].mode = "translation"
    /\ heap[results[1].ret] = After(1)
    /\ heap[results[2].ret] = After(2)
    /\ After(1) # After(2)
    /\ Positions = After(2)

\* C4 (as amended): update("translation", direction=(a,b), speed=s) replaces
\* every position (x,y) by (x + a*s, y + b*s) in float arithmetic, for every
\* dot, with no wrap-around and no clamping; with direction=(1,0), speed=5
\* every x becomes the float sum x + 5 (within half a unit in the last place
\* of x + 5, and x + 5 itself when that is representable) and every y is
\* unchanged.
Ulp(v) == Pow2(ExpOf(Abs(v), 1, 0))

IsTranslation(k) == calls[k].mode = "translation"

C4_TranslationAddsOffset ==
    (Last > 0 /\ IsTranslation(Last)) =>
        LET a == calls[Last].direction[1]
            b == calls[Last].direction[2]
            s == calls[Last].speed
            old == Before(Last)
            new == After(Last)
        IN  /\ Len(new) = Len(old)
            /\ \A i \in DOMAIN old :
                   LET x == old[i][1]
                       y == old[i][2]
                   IN  /\ new[i] = <<FAdd(x, FMul(a, s)), FAdd(y, FMul(b, s))>>
                       /\ (a = Scale /\ b = 0 /\ s = 5 * Scale) =>
                              /\ 2 * Abs(new[i][1] - (x + 5 * Scale)) <= Ulp(x + 5 * Scale)
                              /\ Representable(x + 5 * Scale) => new[i][1] = x + 5 * Scale
                              /\ new[i][2] = y

\* C4 witness: a dot that direction=(1,0), speed=5 moved out of the rectangle
\* is moved further out by the same call made again.
C4_Witness ==
    /\ Len(calls) = 2
    /\ \A k \in 1..2 : IsTranslation(k) /\ calls[k].direction = <<Lit(1, 1), 0>>
                          /\ calls[k].speed = Lit(5, 1)
    /\ \E i \in DOMAIN Positions :
           /\ After(1)[i][1] > width
           /\ After(2)[i][1] > After(1)[i][1]

\* C4 as stated: with direction=(1,0), speed=5 every x increases by exactly 5
\* and every y is unchanged.
C4_Original ==
    (/\ Last > 0
     /\ IsTranslation(Last)
     /\ calls[Last].direction = <<Scale, 0>>
     /\ calls[Last].speed = 5 * Scale) =>
        \A i \in DOMAIN Before(Last) :
            /\ After(Last)[i][1] = Before(Last)[i][1] + 5 * Scale
            /\ After(Last)[i][2] = Before(Last)[i][2]

\* C5: update with mode "ccw" or "cw" replaces every position (x,y) by
\* (cx + (x-cx)cos(a) - (y-cy)sin(a), cy + (x-cx)sin(a) + (y-cy)cos(a)), in
\* float arithmetic, with (cx,cy) = (width/2, height/2), a = +speed for "ccw"
\* and -speed for "cw"; nothing in it depends on the direction argument, and
\* update("cw", speed=t) gives the positions update("ccw", speed=-t) gives.
IsRotation(k) == calls[k].mode \in {"cw", "ccw"}

Centre == <<FDiv(width, Lit(2, 1)), FDiv(height, Lit(2, 1))>>

\* The point (x,y) turned about (cx,cy), given the cosine and the sine of the
\* angle.
RotatedPoint(x, y, cx, cy, c, s) ==
    LET sx == FSub(x, cx)
        sy == FSub(y, cy)
    IN  <<FAdd(cx, FSub(FMul(sx, c), FMul(sy, s))),
          FAdd(cy, FAdd(FMul(sx, s), FMul(sy, c)))>>

C5_RotationFormula ==
    (Last > 0 /\ IsRotation(Last)) =>
        LET t == calls[Last].speed
            a == IF calls[Last].mode = "ccw" THEN t ELSE -t
            c == Cos(a)
            s == Sin(a)
            cx == Centre[1]
            cy == Centre[2]
            old == Before(Last)
            new == After(Last)
            other == IF calls[Last].mode = "cw" THEN "ccw" ELSE "cw"
        IN  /\ Len(new) = Len(old)
            /\ \A i \in DOMAIN old :
                   new[i] = RotatedPoint(old[i][1], old[i][2], cx, cy, c, s)
            /\ new = Rotate(old, width, height, other, -t)

\* C5 witness: a "cw" update, called with a direction that is not the
\* default, has moved the dots.
C5_Witness ==
    /\ Last > 0
    /\ calls[Last].mode = "cw"
    /\ calls[Last].direction # <<Lit(1, 1), 0>>
    /\ After(Last) # Before(Last)
    /\ Len(After(Last)) = 2

SameTwice(k) ==
    /\ k + 1 \in DOMAIN calls
    /\ IsTranslation(k)
    /\ calls[k + 1] = calls[k]

\* Where one call with twice the speed puts coordinate c of the point p.
OnceDoubled(p, c, call) == FAdd(p[c], FMul(call.direction[c], 2 * call.speed))

C7_AdditiveWithinRounding ==
    (Last > 1 /\ SameTwice(Last - 1)) =>
        LET k == Last - 1
            old == Before(k)
            new == After(k + 1)
        IN  /\ \A i \in DOMAIN old, c \in 1..2 :
                   LET x == old[i][c]
                       d == FMul(calls[k].direction[c], calls[k].speed)
                   IN  Abs(new[i][c] - OnceDoubled(old[i], c, calls[k]))
                           <= 3 * Ulp(Abs(x) + 2 * Abs(d))
            /\ edits = 0 => heap[results[k + 1].ret] = new

\* C7 witness: the same translation made twice has put a dot where the one
\* call with twice the speed would not have put it.
C7_Witness ==
    /\ Last > 1
    /\ SameTwice(Last - 1)
    /\ \E i \in DOMAIN Before(Last - 1), c \in 1..2 :
           After(Last)[i][c] # OnceDoubled(Before(Last - 1)[i], c, calls[Last])

\* C7 as stated: the two calls leave the same positions as the one call.
C7_Original ==
    (Last > 1 /\ SameTwice(Last - 1)) =>
        \A i \in DOMAIN Before(Last - 1), c \in 1..2 :
            After(Last)[i][c] = OnceDoubled(Before(Last - 1)[i], c, calls[Last])

\* C8 (as amended): update("ccw", speed=t) followed by update("cw", speed=t)
\* brings every dot back to within floating-point rounding of where it was,
\* dot for dot in the same order: each coordinate at most 16 units in the last
\* place of |x-cx| + |y-cy| + |cx| + |cy| away, and not always equal.
TurnedBack(k) ==
    /\ k + 1 \in DOMAIN calls
    /\ calls[k].mode = "ccw"
    /\ calls[k + 1].mode = "cw"
    /\ calls[k + 1].speed = calls[k].speed

\* The magnitude the rounding of a rotation of the point p is measured by.
Reach(p) ==
    Abs(p[1] - Centre[1]) + Abs(p[2] - Centre[2]) + Abs(Centre[1]) + Abs(Centre[2])

C8_InverseWithinRounding ==
    (Last > 1 /\ TurnedBack(Last - 1)) =>
        LET old == Before(Last - 1)
            new == After(Last)
        IN  /\ Len(new) = Len(old)
            /\ \A i \in DOMAIN old, c \in 1..2 :
                   Abs(new[i][c] - old[i][c]) <= 16 * Ulp(Reach(old[i]))

\* C8 witness: a dot turned "ccw" and back "cw" by the same angle is not
\* exactly where it was.
C8_Witness ==
    /\ Last > 1
    /\ TurnedBack(Last - 1)
    /\ After(Last - 1) # Before(Last - 1)
    /\ After(Last) # Before(Last - 1)

\* C8 as stated: the two calls restore every position.
C8_Original ==
    (Last > 1 /\ TurnedBack(Last - 1)) => After(Last) = Before(Last - 1)

\* C9: two DotFields constructed with the same width, height and dot_density,
\* each handed its own generator and the two generators seeded identically,
\* have identical initial positions; update draws nothing from the generator,
\* and after the same sequence of update calls the two have identical
\* positions.
SameConstruction ==
    /\ fields[1].built /\ fields[2].built
    /\ <<fields[1].width, fields[1].height, fields[1].dot_density>>
           = <<fields[2].width, fields[2].height, fields[2].dot_density>>
    /\ fields[1].rngArg # None /\ fields[2].rngArg # None
    /\ fields[1].rngArg # fields[2].rngArg
    /\ fields[1].seed = fields[2].seed

C9_Reproducible ==
    SameConstruction =>
        /\ fields[1].initial = fields[2].initial
        /\ gens[fields[1].rng] = gens[fields[2].rng]
        /\ \A i \in 1..2 :
               gens[fields[i].rng] =
                   InitializePositions(fields[i].width, fields[i].height,
                                       fields[i].dot_density, fields[i].seed).rng
        /\ fields[1].calls = fields[2].calls => fields[1].positions = fields[2].positions

\* C9 witness: two such DotFields of two dots each, after the same two calls.
C9_Witness ==
    /\ SameConstruction
    /\ Len(fields[1].positions) = 2
    /\ Len(fields[1].calls) = 2
    /\ fields[1].calls = fields[2].calls
    /\ fields[1].calls[1].mode # fields[1].calls[2].mode
    /\ fields[1].positions # fields[1].initial

\* C10 (as amended): a "cw" or "ccw" update leaves every dot's distance to
\* the centre (width/2, height/2) unchanged up to floating-point rounding: by
\* at most 8 units in the last place of |x-cx| + |y-cy| + |cx| + |cy|, not
\* always by nothing; so rotations alone keep a dot within the sum of those
\* bounds of its initial distance.  update never changes width or height.
RECURSIVE SqrtBetween(_, _, _)
SqrtBetween(n, lo, hi) ==
    IF hi - lo <= 1 THEN lo
    ELSE LET mid == (lo + hi) \div 2
         IN  IF mid * mid <= n THEN SqrtBetween(n, mid, hi) ELSE SqrtBetween(n, lo, mid)

\* The integer part of the square root of n, 0 <= n < 2^30.
ISqrt(n) == SqrtBetween(n, 0, Pow2(15))

\* The squared distance of the point p to the centre.
Dist2(p) ==
    (p[1] - Centre[1]) * (p[1] - Centre[1]) + (p[2] - Centre[2]) * (p[2] - Centre[2])

\* Whether the square roots of m and n differ by at most tol.
RootsWithin(m, n, tol) ==
    LET lo == IF m < n THEN m ELSE n
        hi == IF m < n THEN n ELSE m
    IN  hi <= lo + 2 * tol * ISqrt(lo) + tol * tol

C10_DistanceWithinRounding ==
    [][ /\ (IsUpdateStep /\ NewCall.mode \in {"cw", "ccw"}) =>
              /\ Len(heap'[positions']) = Len(Positions)
              /\ \A i \in DOMAIN Positions :
                     RootsWithin(Dist2(Positions[i]), Dist2(heap'[positions'][i]),
                                 8 * Ulp(Reach(Positions[i])))
        /\ IsUpdateStep => (width' = width /\ height' = height)
      ]_vars

\* C10 witness: two rotations in a row have changed a dot's distance to the
\* centre, the second one too.
C10_Witness ==
    /\ Len(calls) = 2
    /\ IsRotation(1) /\ IsRotation(2)
    /\ \E i \in DOMAIN Positions :
           /\ Dist2(After(1)[i]) # Dist2(Before(1)[i])
           /\ Dist2(After(2)[i]) # Dist2(After(1)[i])

\* C10 as stated: the distance of every dot to the centre is the same after a
\* "cw" or "ccw" update as before it.
C10_Original ==
    [][ (IsUpdateStep /\ NewCall.mode \in {"cw", "ccw"}) =>
            \A i \in DOMAIN Positions :
                Dist2(heap'[positions'][i]) = Dist2(Positions[i])
      ]_vars

====
